---- MODULE Spec2Model ----
(***************************************************************************)
(* Model of the real-estate aggregator (src/proto.py, src/app.py):         *)
(*   - PropertyAggregator.estimate_monthly_costs  (specification SpecCost) *)
(*   - PropertyAggregator.parse_data / parse_zillow_data (SpecParse)       *)
(*   - PropertyAggregator.fetch_data / fetch_all_properties driven by the  *)
(*     Flask handler properties() of app.py          (specification Spec)  *)
(***************************************************************************)
EXTENDS Integers, Sequences, FiniteSets, TLC

VARIABLES
    \* ---- app.py properties() / PropertyAggregator, one aggregator per request
    pc,            \* pc[r]: position of request r inside properties()
    properties,    \* properties[r]: self.properties of the aggregator of request r
    task,          \* task[r][api]: position of the fetch_data coroutine
    status,        \* status[r][api]: what the HTTP exchange produced
    body,          \* body[r][api]: the decoded JSON body of a 200 response
    result,        \* result[r][api]: the list fetch_data returned
    completed,     \* completed[r]: api names in the order their coroutines returned
    requests_sent, \* requests_sent[r][api]: number of session.get calls issued
    rendered,      \* rendered[r]: the list handed to render_template
    history,       \* history[r]: per finished fetch_all_properties call of the
                   \* aggregator of r, the lists its coroutines returned
    \* ---- parse_data / parse_zillow_data as a function under test
    api_name, data, parsed, parse_pc,
    \* ---- estimate_monthly_costs as a function under test
    price, sqft, property_type, monthly_costs, cost_pc

aggVars   == <<pc, properties, task, status, body, result, completed,
               requests_sent, rendered, history>>
parseVars == <<api_name, data, parsed, parse_pc>>
costVars  == <<price, sqft, property_type, monthly_costs, cost_pc>>
vars      == <<aggVars, parseVars, costVars>>

(***************************************************************************)
(* JSON / Python values.  Every value is a record with the same three      *)
(* fields: t (its type), n (number payload), s (string payload, a sequence *)
(* of one-character strings).  "absent" is a key missing from a dict.      *)
(***************************************************************************)
Absent  == [t |-> "absent", n |-> 0, s |-> << >>]
None    == [t |-> "null",   n |-> 0, s |-> << >>]
Num(k)  == [t |-> "num",    n |-> k, s |-> << >>]
Str(cs) == [t |-> "str",    n |-> 0, s |-> cs]

\* dict.get(key, default): the default is used only when the key is missing
Get(x, default) == IF x.t = "absent" THEN default ELSE x

\* Python truth value of a scalar: None, 0 and '' are false
Truthy(x) ==
    CASE x.t = "num" -> x.n # 0
      [] x.t = "str" -> Len(x.s) > 0
      [] OTHER       -> FALSE

\* x or default
OrElse(x, default) == IF Truthy(x) THEN x ELSE default

(***************************************************************************)
(* Strings                                                                 *)
(***************************************************************************)
UpperCase == <<"A","B","C","D","E","F","G","H","I","J","K","L","M",
               "N","O","P","Q","R","S","T","U","V","W","X","Y","Z">>
LowerCase == <<"a","b","c","d","e","f","g","h","i","j","k","l","m",
               "n","o","p","q","r","s","t","u","v","w","x","y","z">>
Digits    == <<"0","1","2","3","4","5","6","7","8","9">>

Range(f) == {f[i] : i \in DOMAIN f}

LowerChar(c) ==
    IF c \in Range(UpperCase)
    THEN LowerCase[CHOOSE i \in 1..26 : UpperCase[i] = c]
    ELSE c

\* str.lower()
Lower(cs) == [i \in 1..Len(cs) |-> LowerChar(cs[i])]

\* needle in haystack
Contains(haystack, needle) ==
    \E i \in 0..(Len(haystack) - Len(needle)) :
        SubSeq(haystack, i + 1, i + Len(needle)) = needle

\* str(n) for an integer n
RECURSIVE NatStr(_)
NatStr(k) == IF k < 10 THEN <<Digits[k + 1]>>
             ELSE NatStr(k \div 10) \o <<Digits[(k % 10) + 1]>>
IntStr(k) == IF k < 0 THEN <<"-">> \o NatStr(0 - k) ELSE NatStr(k)

\* str(x) as used by f-strings
PyStr(x) ==
    CASE x.t = "num" -> IntStr(x.n)
      [] x.t = "str" -> x.s
      [] OTHER       -> <<"N","o","n","e">>

\* str.strip(): leading and trailing blanks removed
RECURSIVE LStrip(_)
LStrip(cs) == IF cs # << >> /\ Head(cs) = " " THEN LStrip(Tail(cs)) ELSE cs
RECURSIVE RStrip(_)
RStrip(cs) == IF cs # << >> /\ cs[Len(cs)] = " "
              THEN RStrip(SubSeq(cs, 1, Len(cs) - 1)) ELSE cs
Strip(cs) == RStrip(LStrip(cs))

\* str.replace(old, new) for one-character old and new
Replace(cs, old, new) == [i \in 1..Len(cs) |-> IF cs[i] = old THEN new ELSE cs[i]]

\* urllib.parse.quote(s): letters, digits and  _ . - ~ /  are kept; of the
\* other characters the model uses, each becomes its %XX escape
QuoteSafe == Range(UpperCase) \cup Range(LowerCase) \cup Range(Digits)
             \cup {"_", ".", "-", "~", "/"}
QuoteChar(c) ==
    CASE c \in QuoteSafe -> <<c>>
      [] c = " "         -> <<"%","2","0">>
      [] c = ":"         -> <<"%","3","A">>
      [] c = ","         -> <<"%","2","C">>
      [] c = "?"         -> <<"%","3","F">>
      [] c = "="         -> <<"%","3","D">>
      [] OTHER           -> <<"%","2","5">>   \* "%" itself
RECURSIVE Quote(_)
Quote(cs) == IF cs = << >> THEN << >> ELSE QuoteChar(Head(cs)) \o Quote(Tail(cs))

(***************************************************************************)
(* estimate_monthly_costs (src/proto.py 190-225).                          *)
(* Money is kept exact: an annual amount is an integer number of 1/10000   *)
(* of a currency unit, a monthly figure an integer number of cents.        *)
(***************************************************************************)
DefaultPrice == 500000
DefaultSqft  == 1500

\* the rates of lines 200-208, in 1/10000
PropertyTaxRate == 200     \* 0.02
InsuranceRate   == 50      \* 0.005
UtilitiesRate   == 20000   \* 2.0 per sqft
HoaRate         == 40      \* 0.004
MiscRate        == 10      \* 0.001
MunicipalRate   == 5       \* 0.0005

Condo     == <<"c","o","n","d","o">>
Apartment == <<"a","p","a","r","t","m","e","n","t">>
Unknown   == <<"U","n","k","n","o","w","n">>

\* price = float(price or 500000); sqft = float(sqft or 1500)
CoercePrice(p) == OrElse(p, Num(DefaultPrice)).n
CoerceSqft(a)  == OrElse(a, Num(DefaultSqft)).n
\* property_type = str(property_type or 'Unknown').lower()
CoerceType(k)  == Lower(PyStr(OrElse(k, Str(Unknown))))

\* 'condo' in property_type or 'apartment' in property_type, dropping lower()
IsHoaKindCaseSensitive(k) ==
    LET kind == PyStr(OrElse(k, Str(Unknown)))
    IN  Contains(kind, Condo) \/ Contains(kind, Apartment)

\* 'condo' in property_type or 'apartment' in property_type
IsHoaKind(k) ==
    Contains(CoerceType(k), Condo) \/ Contains(CoerceType(k), Apartment)

AnnualPropertyTax(p) == CoercePrice(p) * PropertyTaxRate
AnnualInsurance(p)   == CoercePrice(p) * InsuranceRate
AnnualUtilities(a)   == CoerceSqft(a) * UtilitiesRate
AnnualHoa(p, k)      == IF IsHoaKind(k) THEN CoercePrice(p) * HoaRate ELSE 0
AnnualMisc(p)        == CoercePrice(p) * MiscRate
AnnualMunicipal(p)   == CoercePrice(p) * MunicipalRate

\* round(annual / 12, 2), in cents.  annual is in 1/10000, so cents are
\* annual / 1200.  A value exactly halfway between two cents is a float that
\* may lie on either side of the tie (round(0.005, 2) = 0.01 but
\* round(0.015, 2) = 0.01), so a tie yields both neighbours.
MonthlyCents(annual) ==
    LET q == annual \div 1200
        r == annual - q * 1200
    IN  IF 2 * r < 1200 THEN {q}
        ELSE IF 2 * r > 1200 THEN {q + 1}
        ELSE {q, q + 1}

\* the inputs the estimator is exercised on
PriceInputs == {Absent, None, Num(0), Num(15), Num(400000), Num(500000),
                Num(-120000)}
SqftInputs  == {None, Num(0), Num(1000), Num(1500), Num(-600)}
KindInputs  == {None, Str(<< >>), Str(Condo), Str(<<"C","o","n","d","o">>),
                Str(<<"s","i","n","g","l","e"," ","f","a","m","i","l","y">>),
                Str(<<"A","P","A","R","T","M","E","N","T","S">>),
                Str(<<"c","o","n","d","o","s">>),
                Str(<<"c","o","-","o","p">>),
                Str(Unknown)}

NoCosts == [property_tax |-> 0, insurance |-> 0, utilities |-> 0,
            hoa_maintenance |-> 0, misc_expenses |-> 0,
            municipal_services |-> 0, total_monthly_non_mortgage_costs |-> 0]

\* one call of estimate_monthly_costs(price, sqft, property_type)
EstimateMonthlyCosts ==
    /\ cost_pc = "call"
    /\ \E tax \in MonthlyCents(AnnualPropertyTax(price)),
          ins \in MonthlyCents(AnnualInsurance(price)),
          utl \in MonthlyCents(AnnualUtilities(sqft)),
          hoa \in MonthlyCents(AnnualHoa(price, property_type)),
          msc \in MonthlyCents(AnnualMisc(price)),
          mun \in MonthlyCents(AnnualMunicipal(price)),
          tot \in MonthlyCents(AnnualPropertyTax(price) + AnnualInsurance(price)
                               + AnnualUtilities(sqft)
                               + AnnualHoa(price, property_type)
                               + AnnualMisc(price) + AnnualMunicipal(price)) :
          monthly_costs' = [property_tax |-> tax, insurance |-> ins,
                            utilities |-> utl, hoa_maintenance |-> hoa,
                            misc_expenses |-> msc, municipal_services |-> mun,
                            total_monthly_non_mortgage_costs |-> tot]
    /\ cost_pc' = "returned"
    /\ UNCHANGED <<price, sqft, property_type, aggVars, parseVars>>

(***************************************************************************)
(* JSON containers.  A dict is a record with t = "dict" and one field per  *)
(* key the code reads; a key that is missing holds Absent.                 *)
(***************************************************************************)
List(items) == [t |-> "list", items |-> items]
EmptyDict   == [t |-> "dict", n |-> 0, s |-> << >>]

\* a result's 'description'
Desc(beds, baths, sq, lot, ty) ==
    [t |-> "dict", beds |-> beds, baths |-> baths, sqft |-> sq,
     lot_sqft |-> lot, type |-> ty]
EmptyDesc == Desc(Absent, Absent, Absent, Absent, Absent)
\* a result's 'location' and its 'address'
Addr(line, city, st, coord) ==
    [t |-> "dict", line |-> line, city |-> city, state_code |-> st,
     coordinate |-> coord]
EmptyAddr == Addr(Absent, Absent, Absent, Absent)
Loc(address) == [t |-> "dict", address |-> address]
\* a 'primary_photo' or an element of 'images'
Photo(href) == [t |-> "dict", href |-> href]
\* one element of data.home_search.results
ResultA(desc, loc, lp, permalink, photo, tags) ==
    [description |-> desc, location |-> loc, list_price |-> lp,
     permalink |-> permalink, primary_photo |-> photo, tags |-> tags]
\* the response of 'us-real-estate': {..., 'data': {'home_search': {'results': [...]}}}
\* other = TRUE when the dict has keys besides the one the code reads
HomeSearch(other, results) == [t |-> "dict", other |-> other, results |-> results]
DataA(home_search)         == [t |-> "dict", home_search |-> home_search]
ResponseA(other, d)        == [t |-> "dict", other |-> other, data |-> d]

\* not x, for a dict, a list or None
EmptyDescription(d) ==
    \/ d.t # "dict"
    \/ /\ d.beds.t = "absent" /\ d.baths.t = "absent" /\ d.sqft.t = "absent"
       /\ d.lot_sqft.t = "absent" /\ d.type.t = "absent"
EmptyHomeSearch(h) == h.t # "dict" \/ (~h.other /\ h.results.t = "absent")
EmptyResponse(d)   == d.t # "dict" \/ (~d.other /\ d.data.t = "absent")
EmptyList(z)       == z.t # "list" \/ z.items = << >>

(***************************************************************************)
(* parse_data, api_name = 'us-real-estate' (src/proto.py 277-365)          *)
(***************************************************************************)
MinBeds     == 3
SqftPerAcre == 43560

RealtorPrefix ==
    <<"h","t","t","p","s",":","/","/","w","w","w",".","r","e","a","l","t","o",
      "r",".","c","o","m","/","r","e","a","l","e","s","t","a","t","e","a","n",
      "d","h","o","m","e","s","-","d","e","t","a","i","l","/">>
NotAvailable == <<"N","/","A">>

\* line 298: description = prop.get('description', {})
DescriptionOf(prop) == Get(prop.description, EmptyDesc)

\* line 299: location = prop.get('location', {}).get('address', {})
\*           if prop.get('location') else {}
LocationOf(prop) ==
    IF prop.location.t = "dict"
    THEN Get(prop.location.address, EmptyAddr)
    ELSE EmptyAddr

\* line 302 without the guard on a known bedroom count: beds < 3
BelowMinBedsUnguarded(description) ==
    LET beds == Get(description.beds, Num(0))
    IN  beds.t = "num" /\ beds.n < MinBeds

\* line 302: description.get('beds', 0) and description.get('beds', 0) < 3
BelowMinBeds(description) ==
    LET beds == Get(description.beds, Num(0))
    IN  Truthy(beds) /\ beds.t = "num" /\ beds.n < MinBeds

\* line 302: the skip condition
SkippedA(prop) ==
    \/ EmptyDescription(DescriptionOf(prop))
    \/ BelowMinBeds(DescriptionOf(prop))

\* the statements of the per-result try block that raise:
\*   line 302  '<' between a str bedroom count and 3          (TypeError)
\*   line 317  location.get(...) when 'address' is null       (AttributeError)
\*   line 318  coords.get('lat') when 'coordinate' is null    (AttributeError)
RaisesA(prop) ==
    LET description == DescriptionOf(prop)
        location    == LocationOf(prop)
    IN  \/ /\ ~EmptyDescription(description)
           /\ Get(description.beds, Num(0)).t = "str"
           /\ Truthy(Get(description.beds, Num(0)))
        \/ /\ ~SkippedA(prop)
           /\ \/ location.t = "null"
              \/ location.t = "dict" /\ location.coordinate.t = "null"

\* lines 307-313: round(lot_sqft / 43560, 4) acres, kept as a number of
\* 1/10000 acre, or 'N/A'
LotsizeA(description) ==
    LET lot == Get(description.lot_sqft, Num(0))
    IN  IF Truthy(lot)
        THEN [t |-> "acres",
              n |-> (2 * lot.n * 10000 + SqftPerAcre) \div (2 * SqftPerAcre),
              s |-> << >>]
        ELSE Str(NotAvailable)

\* line 328
ListingUrlA(prop) ==
    IF Truthy(prop.permalink)
    THEN Str(RealtorPrefix \o PyStr(prop.permalink))
    ELSE Str(<< >>)

\* lines 331-335: primary_photo.get('href') if primary_photo else None
ThumbnailA(prop) ==
    IF prop.primary_photo.t = "dict"
    THEN Get(prop.primary_photo.href, None)
    ELSE None

\* line 342
AddressA(location) ==
    Str(Strip(PyStr(Get(location.line, Str(<< >>))) \o <<" ">>
              \o PyStr(Get(location.city, Str(<< >>))) \o <<" ">>
              \o PyStr(Get(location.state_code, Str(<< >>)))))

\* lines 340-351: the record appended for a result that is neither skipped
\* nor raises
RecordA(prop) ==
    LET description == DescriptionOf(prop)
        location    == LocationOf(prop)
    IN  [price         |-> Get(prop.list_price, Num(0)),
         address       |-> AddressA(location),
         bedrooms      |-> Get(description.beds, Num(0)),
         bathrooms     |-> Get(description.baths, Num(0)),
         sqft          |-> Get(description.sqft, Num(0)),
         lotsize       |-> LotsizeA(description),
         property_type |-> Get(description.type, Str(Unknown)),
         tags          |-> Get(prop.tags, None),
         thumbnail_url |-> ThumbnailA(prop),
         listing_url   |-> ListingUrlA(prop),
         source        |-> Absent]

\* lines 296-354: one iteration of the loop; the records it appends
ParseResultA(prop) ==
    IF RaisesA(prop) \/ SkippedA(prop) THEN << >> ELSE <<RecordA(prop)>>

\* lines 296-354 without the per-result try: a result that raises reaches
\* the handler of lines 357-359 and the whole batch is answered with []
ParseResultsAAbortOnRaise(props) ==
    IF \E i \in DOMAIN props : RaisesA(props[i]) THEN << >>
    ELSE LET NotSkipped(p) == ~SkippedA(p)
             kept == SelectSeq(props, NotSkipped)
         IN  [i \in 1..Len(kept) |-> RecordA(kept[i])]

RECURSIVE ParseResultsA(_)
ParseResultsA(props) ==
    IF props = << >> THEN << >>
    ELSE ParseResultA(Head(props)) \o ParseResultsA(Tail(props))

\* lines 280-359
ParseUsRealEstate(d) ==
    IF EmptyResponse(d) \/ d.data.t = "absent" THEN << >>  \* 282-284
    ELSE IF d.data.t # "dict" THEN << >>                  \* 286 raises: 357-359
    ELSE IF EmptyHomeSearch(Get(d.data.home_search, HomeSearch(FALSE, Absent))) THEN << >>  \* 287-289
    ELSE IF EmptyList(Get(d.data.home_search.results, List(<< >>))) THEN << >> \* 291-294
    ELSE ParseResultsA(d.data.home_search.results.items)

(***************************************************************************)
(* parse_zillow_data (src/proto.py 47-136)                                 *)
(***************************************************************************)
\* one element of 'props'
PropB(address, pr, beds, baths, area, lotv, lotu, image, photo, primary_photo, images, imgSrc, url) ==
    [address |-> address, price |-> pr, bedrooms |-> beds, bathrooms |-> baths,
     livingArea |-> area, lotAreaValue |-> lotv, lotAreaUnit |-> lotu,
     image |-> image, photo |-> photo, primary_photo |-> primary_photo,
     images |-> images, imgSrc |-> imgSrc, url |-> url]
\* the response of 'zillow': {'props': [...]}
ResponseB(props) == [t |-> "dict", props |-> props]

PlaceholderWord == <<"p","l","a","c","e","h","o","l","d","e","r">>
PlaceholderUrl ==
    <<"h","t","t","p","s",":","/","/","v","i","a",".","p","l","a","c","e","h",
      "o","l","d","e","r",".","c","o","m","/","2","0","0","x","1","5","0",".",
      "p","n","g","?","t","e","x","t","=">>
ZillowHomes ==
    <<"h","t","t","p","s",":","/","/","w","w","w",".","z","i","l","l","o","w",
      ".","c","o","m","/","h","o","m","e","s","/">>
SingleFamily == <<"S","i","n","g","l","e"," ","F","a","m","i","l","y">>
Zillow       == <<"Z","i","l","l","o","w">>

\* line 80: prop.get('primary_photo', {}).get('href')
PrimaryPhotoHrefB(prop) ==
    IF prop.primary_photo.t = "dict" THEN Get(prop.primary_photo.href, None)
    ELSE None
\* line 81: prop.get('images', [{}])[0].get('href') if prop.get('images') else None
FirstImageHrefB(prop) ==
    IF ~EmptyList(prop.images) /\ prop.images.items[1].t = "dict"
    THEN Get(prop.images.items[1].href, None)
    ELSE None

\* lines 77-82
ImageSources(prop) ==
    <<Get(prop.image, None), Get(prop.photo, None),
      PrimaryPhotoHrefB(prop), FirstImageHrefB(prop)>>

\* line 88 without the test for the word 'placeholder'
AcceptableImageAny(img) == Truthy(img) /\ img.t = "str"

\* line 88: img and isinstance(img, str) and 'placeholder' not in img.lower()
AcceptableImage(img) ==
    /\ Truthy(img)
    /\ img.t = "str"
    /\ ~Contains(Lower(img.s), PlaceholderWord)

\* line 94
SynthesizedThumbnail(beds, baths) ==
    Str(PlaceholderUrl
        \o Quote(PyStr(beds) \o <<" ","B","e","d"," ">> \o PyStr(baths)
                 \o <<" ","B","a","t","h">>))

\* lines 85-94 without the synthesized placeholder of lines 93-94
ThumbnailBNoFallback(prop) ==
    LET sources == ImageSources(prop)
        hits    == {i \in 1..Len(sources) : AcceptableImage(sources[i])}
        first   == CHOOSE i \in hits : \A j \in hits : i <= j
    IN  IF Truthy(Get(prop.imgSrc, None)) THEN prop.imgSrc
        ELSE IF hits # {} THEN sources[first]
        ELSE None

\* lines 85-94
ThumbnailB(prop) ==
    LET sources == ImageSources(prop)
        hits    == {i \in 1..Len(sources) : AcceptableImage(sources[i])}
        first   == CHOOSE i \in hits : \A j \in hits : i <= j
    IN  IF Truthy(Get(prop.imgSrc, None)) THEN prop.imgSrc
        ELSE IF hits # {} THEN sources[first]
        ELSE SynthesizedThumbnail(Get(prop.bedrooms, Num(0)),
                                  Get(prop.bathrooms, Num(0)))

\* lines 97-100
ListingUrlB(prop) ==
    IF Truthy(Get(prop.url, None)) THEN prop.url
    ELSE Str(ZillowHomes
             \o Quote(Replace(Get(prop.address, Str(NotAvailable)).s, " ", "-")))

\* lines 69-71
LotsizeB(prop) ==
    LET value == PyStr(Get(prop.lotAreaValue, Num(0)))
        units == PyStr(Get(prop.lotAreaUnit, Num(0)))
    IN  Str((IF value = << >> THEN NotAvailable ELSE value) \o <<" ">> \o units)

\* the statements of the per-prop try block that raise:
\*   line 80   .get('href') on a null 'primary_photo'         (AttributeError)
\*   line 81   .get('href') on a null first element of 'images'
\*   line 100  address.replace when 'address' is not a str and 'url' is missing
RaisesB(prop) ==
    \/ prop.primary_photo.t = "null"
    \/ ~EmptyList(prop.images) /\ prop.images.items[1].t = "null"
    \/ /\ ~Truthy(Get(prop.url, None))
       /\ Get(prop.address, Str(NotAvailable)).t # "str"

\* lines 109-121
RecordB(prop) ==
    [price         |-> Get(prop.price, Num(0)),
     address       |-> Get(prop.address, Str(NotAvailable)),
     bedrooms      |-> Get(prop.bedrooms, Num(0)),
     bathrooms     |-> Get(prop.bathrooms, Num(0)),
     sqft          |-> Get(prop.livingArea, Num(0)),
     lotsize       |-> LotsizeB(prop),
     property_type |-> Str(SingleFamily),
     tags          |-> List(<< >>),
     thumbnail_url |-> ThumbnailB(prop),
     listing_url   |-> ListingUrlB(prop),
     source        |-> Str(Zillow)]

\* lines 61-128 with the bedroom filter of Source A (line 302) applied
ParsePropBFiltered(prop) ==
    IF RaisesB(prop) THEN << >>
    ELSE IF Truthy(Get(prop.bedrooms, Num(0))) /\ Get(prop.bedrooms, Num(0)).n < MinBeds
    THEN << >>
    ELSE <<RecordB(prop)>>

\* lines 61-128: one iteration of the loop; the records it appends
ParsePropB(prop) == IF RaisesB(prop) THEN << >> ELSE <<RecordB(prop)>>

RECURSIVE ParsePropsB(_)
ParsePropsB(props) ==
    IF props = << >> THEN << >>
    ELSE ParsePropB(Head(props)) \o ParsePropsB(Tail(props))

\* lines 47-136
parse_zillow_data(d) ==
    IF d.t # "dict" THEN << >>                            \* 59 raises: 132-134
    ELSE IF d.props.t = "absent" THEN << >>               \* 59: default []
    ELSE IF d.props.t # "list" THEN << >>                 \* 61 raises: 132-134
    ELSE ParsePropsB(d.props.items)

\* lines 286-291 and 59 with the keys read by subscript outside any try:
\* a response without 'data', 'home_search' or 'props' raises
ParseDataRaisesUnguarded(api, d) ==
    IF api = "us-real-estate"
    THEN \/ d.t # "dict"
         \/ d.data.t # "dict"
         \/ d.data.home_search.t # "dict"
    ELSE d.t # "dict" \/ d.props.t # "list"

\* lines 281, 357-359 and 53, 132-134: every statement of the normalizers is
\* inside a try whose handler returns [], so no payload makes parse_data raise
ParseDataRaises(api, d) == FALSE

\* lines 277-365
parse_data(api, d) ==
    CASE api = "us-real-estate" -> ParseUsRealEstate(d)
      [] api = "zillow"         -> parse_zillow_data(d)
      [] OTHER                  -> << >>

(***************************************************************************)
(* The payloads the normalizers are exercised on.  A listing lies in the   *)
(* city that was searched for.                                             *)
(***************************************************************************)
MaxResultsA == 2     \* longest 'results' list of a Source A payload
MaxPropsB   == 2     \* longest 'props' list of a Source B payload

CityOf(r) == <<"C","i","t","y">> \o IntStr(r)

MainSt   == <<"1"," ","M","a","i","n"," ","S","t">>
StateNY  == <<"N","Y">>
House1   == <<"h","o","u","s","e","-","1">>
JpgA     == <<"a",".","j","p","g">>
JpgB     == <<"b",".","j","p","g">>
JpgC     == <<"c",".","j","p","g">>
JpgD     == <<"d",".","j","p","g">>
JpgI     == <<"i",".","j","p","g">>
MixedCasePlaceholder ==
    <<"x","/","P","l","a","c","e","H","o","l","d","e","r",".","p","n","g">>
PlaceholderGif ==
    <<"p","l","a","c","e","h","o","l","d","e","r",".","g","i","f">>
ElmSt    == <<"5"," ","E","l","m"," ","S","t",","," ">>
ZUrl     == <<"z",".","c","o","/","1">>
SqftUnit == <<"s","q","f","t">>
Garage   == <<"g","a","r","a","g","e">>

GoodDesc(beds) == Desc(beds, Num(2), Num(1800), Num(43560), Str(Condo))
GoodLoc(city)  == Loc(Addr(Str(MainSt), Str(city), Str(StateNY), EmptyDict))
GoodResultA(city, desc, loc) ==
    ResultA(desc, loc, Num(400000), Str(House1), Photo(Str(JpgA)), Absent)

\* results of Source A: each field in turn absent, null, empty or ill-typed
ResultsA(city) ==
    {GoodResultA(city, d, GoodLoc(city)) :
        d \in {Absent, None, EmptyDesc,
               Desc(Num(3), None, None, Absent, Absent)}
              \cup {GoodDesc(b) : b \in {Absent, None, Num(0), Num(1), Num(2),
                                         Num(3), Num(4), Str(<<"2">>)}}}
    \cup
    {GoodResultA(city, GoodDesc(b), l) :
        b \in {Num(1), Num(4)},
        l \in {Absent, None, Loc(Absent), Loc(None),
               Loc(Addr(Absent, Str(city), Absent, None))}}
    \cup
    {ResultA(GoodDesc(Num(3)), GoodLoc(city), lp, Str(House1), ph, Absent) :
        lp \in {Absent, None},
        ph \in {Absent, None, Photo(Absent), Photo(None), Photo(Str(JpgA))}}
    \cup
    {ResultA(GoodDesc(Num(5)), GoodLoc(city), Num(1), pl, Absent, tg) :
        pl \in {Absent, None}, tg \in {Absent, List(<<Garage>>)}}

\* the sequences over S of length 1..k
SeqsUpTo(S, k) == UNION {[1..m -> S] : m \in 1..k}

\* decoded bodies of Source A: every structural shape of lines 282-294
StructuresA ==
    {None, ResponseA(FALSE, Absent), ResponseA(TRUE, Absent),
     ResponseA(TRUE, None)}
    \cup {ResponseA(o, DataA(h)) :
            o \in BOOLEAN,
            h \in {Absent, None, HomeSearch(FALSE, Absent),
                   HomeSearch(TRUE, Absent), HomeSearch(TRUE, None),
                   HomeSearch(TRUE, List(<< >>))}}
PayloadsA(city) ==
    StructuresA
    \cup {ResponseA(FALSE, DataA(HomeSearch(FALSE, List(items)))) :
            items \in SeqsUpTo(ResultsA(city), MaxResultsA)}

GoodPropB(city, beds, baths, image, photo, pp, images, imgSrc) ==
    PropB(Str(ElmSt \o city), Num(350000), beds, baths, Num(1500), Num(5000),
          Str(SqftUnit), image, photo, pp, images, imgSrc, Str(ZUrl))

\* props of Source B: the image fields in combination, the others in turn
PropsB(city) ==
    {GoodPropB(city, Num(3), Num(2), im, ph, Absent, Absent, src) :
        im  \in {Absent, Str(MixedCasePlaceholder), Str(JpgA), Num(7)},
        ph  \in {Absent, Str(JpgB)},
        src \in {Absent, Str(<< >>)}}
    \cup
    {GoodPropB(city, Num(3), Num(2), im, Absent, pp, Absent, src) :
        im  \in {Absent, Str(MixedCasePlaceholder)},
        pp  \in {Photo(Str(JpgC))},
        src \in {Absent, Str(PlaceholderGif), Str(JpgI)}}
    \cup
    {GoodPropB(city, Num(3), Num(2), Absent, Absent, pp, imgs, Absent) :
        pp   \in {None, Photo(Absent), Photo(Str(PlaceholderWord))},
        imgs \in {None, List(<< >>), List(<<Photo(Str(JpgD))>>), List(<<None>>)}}
    \cup
    {GoodPropB(city, beds, baths, Absent, Absent, Absent, Absent, Absent) :
        beds \in {Absent, None, Num(1), Num(12)}, baths \in {None, Num(1)}}
    \cup
    {PropB(ad, None, Num(2), Num(1), None, Absent, Absent, Absent, Absent,
           Absent, Absent, Absent, url) :
        ad \in {Absent, None, Str(ElmSt \o city)},
        url \in {Absent, None, Str(ZUrl)}}

PayloadsB(city) ==
    {None, ResponseB(Absent), ResponseB(None), ResponseB(List(<< >>))}
    \cup {ResponseB(List(items)) : items \in SeqsUpTo(PropsB(city), MaxPropsB)}

(***************************************************************************)
(* The normalizers and the estimator as functions under test               *)
(***************************************************************************)
Apis == <<"us-real-estate", "zillow">>     \* self.apis.keys(), lines 24-45

Payloads(api, city) == IF api = "us-real-estate" THEN PayloadsA(city)
                       ELSE PayloadsB(city)

\* the state of the aggregator part before any request
AggIdle ==
    /\ pc = << >> /\ properties = << >> /\ task = << >> /\ status = << >>
    /\ body = << >> /\ result = << >> /\ completed = << >>
    /\ requests_sent = << >> /\ rendered = << >> /\ history = << >>
ParseIdle ==
    /\ api_name = "zillow" /\ data = None /\ parsed = << >> /\ parse_pc = "idle"
CostIdle ==
    /\ price = None /\ sqft = None /\ property_type = None
    /\ monthly_costs = NoCosts /\ cost_pc = "idle"

InitParse ==
    /\ api_name \in Range(Apis)
    /\ data \in Payloads(api_name, CityOf(1))
    /\ parsed = << >>
    /\ parse_pc = "call"
    /\ AggIdle /\ CostIdle

\* one call of parse_data(api_name, data)
ParseData ==
    /\ parse_pc = "call"
    /\ IF ParseDataRaises(api_name, data)
       THEN parsed' = << >> /\ parse_pc' = "raised"
       ELSE parsed' = parse_data(api_name, data) /\ parse_pc' = "returned"
    /\ UNCHANGED <<api_name, data, aggVars, costVars>>

NextParse == ParseData
SpecParse == InitParse /\ [][NextParse]_vars

InitCost ==
    /\ price \in PriceInputs
    /\ sqft \in SqftInputs
    /\ property_type \in KindInputs
    /\ monthly_costs = NoCosts
    /\ cost_pc = "call"
    /\ AggIdle /\ ParseIdle

NextCost == EstimateMonthlyCosts
SpecCost == InitCost /\ [][NextCost]_vars

(***************************************************************************)
(* The web handler properties() (src/app.py 14-47) running                 *)
(* fetch_all_properties (src/proto.py 367-376) on a fresh aggregator.      *)
(* Request r searches for CityOf(r); the requests are served by            *)
(* independent threads, so their steps interleave freely.                  *)
(***************************************************************************)
MaxRequests == 2
Requests    == 1..MaxRequests
ApiNames    == Range(Apis)

\* decoded bodies the upstream sources answer a search for city with
BodiesA(city) ==
    {ResponseA(TRUE, Absent),
     ResponseA(FALSE, DataA(HomeSearch(FALSE, List(
        <<GoodResultA(city, GoodDesc(Num(1)), GoodLoc(city)),
          ResultA(GoodDesc(Num(3)), GoodLoc(city), Num(400000), Str(House1),
                  Absent, Absent)>>))))}
BodiesB(city) ==
    {ResponseB(List(
        <<GoodPropB(city, Num(3), Num(2), Absent, Absent, Absent, Absent, Absent)>>))}
Bodies(api, city) == IF api = "us-real-estate" THEN BodiesA(city) ELSE BodiesB(city)

Init ==
    /\ pc            = [r \in Requests |-> "idle"]
    /\ properties    = [r \in Requests |-> << >>]
    /\ task          = [r \in Requests |-> [a \in ApiNames |-> "idle"]]
    /\ status        = [r \in Requests |-> [a \in ApiNames |-> "none"]]
    /\ body          = [r \in Requests |-> [a \in ApiNames |-> None]]
    /\ result        = [r \in Requests |-> [a \in ApiNames |-> << >>]]
    /\ completed     = [r \in Requests |-> << >>]
    /\ requests_sent = [r \in Requests |-> [a \in ApiNames |-> 0]]
    /\ rendered      = [r \in Requests |-> << >>]
    /\ history       = [r \in Requests |-> << >>]
    /\ ParseIdle /\ CostIdle

\* app.py 20-21: a blank city or state is answered with the index page
RejectBlank(r) ==
    /\ pc[r] = "idle"
    /\ pc' = [pc EXCEPT ![r] = "rejected"]
    /\ UNCHANGED <<properties, task, status, body, result, completed,
                   requests_sent, rendered, history, parseVars, costVars>>

\* all records held by the aggregators of the other requests
RECURSIVE OthersRecords(_, _)
OthersRecords(r, q) ==
    IF q > MaxRequests THEN << >>
    ELSE (IF q = r THEN << >> ELSE properties[q]) \o OthersRecords(r, q + 1)

\* __init__ with the list shared by all instances (a class-level list)
ConstructShared(r) ==
    /\ pc[r] = "idle"
    /\ properties' = [properties EXCEPT ![r] = OthersRecords(r, 1)]
    /\ pc' = [pc EXCEPT ![r] = "constructed"]
    /\ UNCHANGED <<task, status, body, result, completed, requests_sent,
                   rendered, history, parseVars, costVars>>

\* app.py 28, proto.py 19-45: aggregator = PropertyAggregator(api_key, city, state)
Construct(r) ==
    /\ pc[r] = "idle"
    /\ properties' = [properties EXCEPT ![r] = << >>]
    /\ pc' = [pc EXCEPT ![r] = "constructed"]
    /\ UNCHANGED <<task, status, body, result, completed, requests_sent,
                   rendered, history, parseVars, costVars>>

\* app.py 32-34, proto.py 368-374: one fetch_data coroutine per api is
\* created and gather starts them; each issues its session.get (line 263)
FetchAll(r) ==
    /\ pc[r] = "constructed"
    /\ task' = [task EXCEPT ![r] = [a \in ApiNames |-> "requesting"]]
    /\ requests_sent' = [requests_sent EXCEPT
                            ![r] = [a \in ApiNames |-> requests_sent[r][a] + 1]]
    /\ pc' = [pc EXCEPT ![r] = "gathering"]
    /\ UNCHANGED <<properties, status, body, result, completed, rendered,
                   history, parseVars, costVars>>

\* proto.py 254-275: what fetch_data returns for a status and a decoded body
FetchResult(api, st, b) ==
    IF st = "200" THEN parse_data(api, b) ELSE << >>

\* the coroutine of api returns res
Return(r, api, res) ==
    /\ result' = [result EXCEPT ![r][api] = res]
    /\ task' = [task EXCEPT ![r][api] = "done"]
    /\ completed' = [completed EXCEPT ![r] = Append(@, api)]

\* proto.py 263-264, 273-275: session.get resolves with a status line, or
\* raises and the coroutine returns []
Respond(r, api) ==
    /\ task[r][api] = "requesting"
    /\ \E st \in {"200", "500", "exception"} :
         /\ status' = [status EXCEPT ![r][api] = st]
         /\ IF st = "exception"
            THEN Return(r, api, FetchResult(api, st, None))
            ELSE /\ task' = [task EXCEPT ![r][api] = "reading"]
                 /\ UNCHANGED <<result, completed>>
    /\ UNCHANGED <<pc, properties, body, requests_sent, rendered,
                   history, parseVars, costVars>>

\* lines 265-272 with the coroutine adding its records to self.properties
\* itself as soon as it has them
ReadBodyMerging(r, api) ==
    /\ task[r][api] = "reading"
    /\ \E b \in (IF status[r][api] = "200" THEN Bodies(api, CityOf(r)) ELSE {None}) :
         /\ body' = [body EXCEPT ![r][api] = b]
         /\ Return(r, api, FetchResult(api, status[r][api], b))
         /\ properties' = [properties EXCEPT
                              ![r] = @ \o FetchResult(api, status[r][api], b)]
    /\ UNCHANGED <<pc, status, requests_sent, rendered, history, parseVars, costVars>>

\* proto.py 265-272: await response.json() and parse_data, or
\* await response.text() and []
ReadBody(r, api) ==
    /\ task[r][api] = "reading"
    /\ \E b \in (IF status[r][api] = "200" THEN Bodies(api, CityOf(r)) ELSE {None}) :
         /\ body' = [body EXCEPT ![r][api] = b]
         /\ Return(r, api, FetchResult(api, status[r][api], b))
    /\ UNCHANGED <<pc, properties, status, requests_sent, rendered,
                   history, parseVars, costVars>>

\* proto.py 273-275: reading the body raises (connection lost, invalid JSON)
ReadFails(r, api) ==
    /\ task[r][api] = "reading"
    /\ status' = [status EXCEPT ![r][api] = "exception"]
    /\ Return(r, api, << >>)
    /\ UNCHANGED <<pc, properties, body, requests_sent, rendered,
                   history, parseVars, costVars>>

\* the results as they would come from asyncio.as_completed
GatherResultsCompletionOrder(r) ==
    [i \in 1..Len(completed[r]) |-> result[r][completed[r][i]]]

\* gather that gives up all results when one source did not answer 200
GatherResultsAllOrNothing(r) ==
    IF \E a \in ApiNames : status[r][a] # "200"
    THEN [i \in 1..Len(Apis) |-> << >>]
    ELSE [i \in 1..Len(Apis) |-> result[r][Apis[i]]]

\* proto.py 374: asyncio.gather returns the results in the order of the
\* awaitables it was given, that is of self.apis.keys()
GatherResults(r) == [i \in 1..Len(Apis) |-> result[r][Apis[i]]]

\* lines 375-376 assigning the merged results to self.properties instead of
\* extending it
RECURSIVE ExtendAllReplacing(_, _)
ExtendAllReplacing(props, results) ==
    IF results = << >> THEN << >>
    ELSE Head(results) \o ExtendAllReplacing(props, Tail(results))

\* proto.py 375-376: for result in results: self.properties.extend(result)
RECURSIVE ExtendAll(_, _)
ExtendAll(props, results) ==
    IF results = << >> THEN props
    ELSE ExtendAll(props \o Head(results), Tail(results))

\* proto.py 374-376: every coroutine has returned; merge
Gather(r) ==
    /\ pc[r] = "gathering"
    /\ \A a \in ApiNames : task[r][a] = "done"
    /\ properties' = [properties EXCEPT ![r] = ExtendAll(@, GatherResults(r))]
    /\ history' = [history EXCEPT ![r] = Append(@, result[r])]
    /\ pc' = [pc EXCEPT ![r] = "fetched"]
    /\ UNCHANGED <<task, status, body, result, completed, requests_sent,
                   rendered, parseVars, costVars>>

\* app.py 35-40: loop.close(), after which nothing of the coroutines is left,
\* and render_template('properties.html', properties=aggregator.properties)
Render(r) ==
    /\ pc[r] = "fetched"
    /\ rendered' = [rendered EXCEPT ![r] = properties[r]]
    /\ pc' = [pc EXCEPT ![r] = "rendered"]
    /\ task' = [task EXCEPT ![r] = [a \in ApiNames |-> "closed"]]
    /\ status' = [status EXCEPT ![r] = [a \in ApiNames |-> "none"]]
    /\ body' = [body EXCEPT ![r] = [a \in ApiNames |-> None]]
    /\ result' = [result EXCEPT ![r] = [a \in ApiNames |-> << >>]]
    /\ completed' = [completed EXCEPT ![r] = << >>]
    /\ UNCHANGED <<properties, requests_sent, history, parseVars, costVars>>

Next ==
    \E r \in Requests :
        \/ RejectBlank(r)
        \/ Construct(r)
        \/ FetchAll(r)
        \/ \E a \in ApiNames : Respond(r, a)
        \/ \E a \in ApiNames : ReadBody(r, a)
        \/ \E a \in ApiNames : ReadFails(r, a)
        \/ Gather(r)
        \/ Render(r)

Spec == Init /\ [][Next]_vars

(***************************************************************************)
(* One aggregator object on which fetch_all_properties is called again     *)
(* after it returned (the object of main(), proto.py 531-534, kept by its   *)
(* caller): nothing in the class resets self.properties between calls.      *)
(***************************************************************************)
MaxCalls == 2      \* calls of fetch_all_properties on the one aggregator

\* proto.py 367-374 entered again on the same object: fresh coroutines, a
\* fresh results list, self.properties untouched
CallAgain(r) ==
    /\ pc[r] = "fetched"
    /\ Len(history[r]) < MaxCalls
    /\ task' = [task EXCEPT ![r] = [a \in ApiNames |-> "requesting"]]
    /\ status' = [status EXCEPT ![r] = [a \in ApiNames |-> "none"]]
    /\ body' = [body EXCEPT ![r] = [a \in ApiNames |-> None]]
    /\ result' = [result EXCEPT ![r] = [a \in ApiNames |-> << >>]]
    /\ completed' = [completed EXCEPT ![r] = << >>]
    /\ requests_sent' = [requests_sent EXCEPT
                            ![r] = [a \in ApiNames |-> requests_sent[r][a] + 1]]
    /\ pc' = [pc EXCEPT ![r] = "gathering"]
    /\ UNCHANGED <<properties, rendered, history, parseVars, costVars>>

NextReuse ==
    \/ Construct(1)
    \/ FetchAll(1)
    \/ \E a \in ApiNames : Respond(1, a)
    \/ \E a \in ApiNames : ReadBody(1, a)
    \/ \E a \in ApiNames : ReadFails(1, a)
    \/ Gather(1)
    \/ CallAgain(1)

SpecReuse == Init /\ [][NextReuse]_vars

(***************************************************************************)
(* Properties of the aggregator (specification Spec)                       *)
(***************************************************************************)
UsRealEstate == Apis[1]
ZillowApi    == Apis[2]

\* the normalized records of a source that answered 200, nothing otherwise
NormalizedOf(r, a) ==
    IF status[r][a] = "200" THEN parse_data(a, body[r][a]) ELSE << >>

\* C1: whatever each source's fetch produced (HTTP 200 with a JSON body, a
\* non-200 status, a transport exception), fetch_all_properties completes
\* without raising; the records it adds are exactly the normalized records of
\* the sources that answered 200, a failed source contributes the empty list,
\* and no source is requested more than once.
C1_FailSoftAggregation ==
    \A r \in Requests :
        /\ pc[r] # "error"
        /\ \A a \in ApiNames :
              /\ requests_sent[r][a] <= 1
              /\ (task[r][a] = "done" /\ status[r][a] # "200")
                    => result[r][a] = << >>
        /\ pc[r] = "fetched"
              => properties[r] = NormalizedOf(r, UsRealEstate)
                                 \o NormalizedOf(r, ZillowApi)

\* one source answered 500, the other valid JSON, and only the latter's
\* records were added
C1_Witness ==
    \E r \in Requests :
        /\ pc[r] = "fetched"
        /\ status[r][UsRealEstate] = "500"
        /\ status[r][ZillowApi] = "200"
        /\ properties[r] # << >>
        /\ properties[r] = parse_data(ZillowApi, body[r][ZillowApi])

\* both sources failed and the call completed with an empty list
C1_WitnessBothFail ==
    \E r \in Requests :
        /\ pc[r] = "fetched"
        /\ status[r][UsRealEstate] = "exception"
        /\ status[r][ZillowApi] = "500"
        /\ properties[r] = << >>

\* C2: two requests for different locations in one process: the list handed
\* to the renderer of a request holds only records its own fetches produced
\* (listings of its own city), none of another request's, in every
\* interleaving of the requests.
C2_NoLeakBetweenRequests ==
    \A r \in Requests :
        /\ pc[r] = "fetched"
              => \A i \in DOMAIN properties[r] :
                    \E a \in ApiNames : properties[r][i] \in Range(result[r][a])
        /\ pc[r] = "rendered"
              => /\ rendered[r] = properties[r]
                 /\ \A i \in DOMAIN rendered[r] :
                       /\ Contains(rendered[r][i].address.s, CityOf(r))
                       /\ \A q \in Requests \ {r} :
                             ~Contains(rendered[r][i].address.s, CityOf(q))

\* two requests both got listings rendered
C2_Witness ==
    /\ pc[1] = "rendered" /\ rendered[1] # << >>
    /\ pc[2] = "rendered" /\ rendered[2] # << >>

\* C9 as stated: the per-source outputs are concatenated in the order in
\* which the fetches completed.
C9_CompletionOrderMerge ==
    \A r \in Requests :
        pc[r] = "fetched"
            => properties[r] = result[r][completed[r][1]]
                               \o result[r][completed[r][2]]

\* C9 amended: the per-source outputs are concatenated in the order in which
\* the sources are configured (us-real-estate, then zillow), whichever
\* response completed first.
C9_ConfiguredOrderMerge ==
    \A r \in Requests :
        pc[r] = "fetched"
            => properties[r] = result[r][UsRealEstate] \o result[r][ZillowApi]

\* zillow completed first, both sources gave records, and the merge is done
C9_Witness ==
    \E r \in Requests :
        /\ pc[r] = "fetched"
        /\ completed[r] = <<ZillowApi, UsRealEstate>>
        /\ result[r][UsRealEstate] # << >>
        /\ result[r][ZillowApi] # << >>

\* C10: while a fetch of a call is in flight, properties is what it was at the
\* start of the call (empty, the aggregator being fresh): no state has one
\* source's records merged while the other source is pending.
C10_MergeOnlyAfterAllReturned ==
    \A r \in Requests :
        (\E a \in ApiNames : task[r][a] \in {"requesting", "reading"})
            => properties[r] = << >>

\* one source has returned records, the other is still in flight
C10_Witness ==
    \E r \in Requests :
        /\ task[r][ZillowApi] = "done"
        /\ result[r][ZillowApi] # << >>
        /\ task[r][UsRealEstate] = "requesting"
        /\ properties[r] = << >>

(***************************************************************************)
(* Properties of the normalizers (specification SpecParse)                 *)
(***************************************************************************)
\* the elements of the payload's 'results' or 'props' list, if it has one
ItemsOf(api, d) ==
    IF api = UsRealEstate
    THEN IF /\ d.t = "dict" /\ d.data.t = "dict"
            /\ d.data.home_search.t = "dict"
            /\ d.data.home_search.results.t = "list"
         THEN d.data.home_search.results.items ELSE << >>
    ELSE IF d.t = "dict" /\ d.props.t = "list" THEN d.props.items ELSE << >>

EmittedA(p) == ~RaisesA(p) /\ ~SkippedA(p)
EmittedB(p) == ~RaisesB(p)
\* the elements that gave a record, in input order
SourcesOfParsed ==
    IF api_name = UsRealEstate
    THEN SelectSeq(ItemsOf(api_name, data), EmittedA)
    ELSE SelectSeq(ItemsOf(api_name, data), EmittedB)

IsNull(v) == v.t = "null"

\* C3 as stated: every record of either normalizer has non-null price,
\* address, bedrooms, bathrooms, sqft, thumbnail_url and listing_url, also
\* when the payload lacks a field or carries it as null.
C3_AllFieldsNonNull ==
    parse_pc = "returned" =>
        \A i \in DOMAIN parsed :
            /\ ~IsNull(parsed[i].price)
            /\ ~IsNull(parsed[i].address)
            /\ ~IsNull(parsed[i].bedrooms)
            /\ ~IsNull(parsed[i].bathrooms)
            /\ ~IsNull(parsed[i].sqft)
            /\ ~IsNull(parsed[i].thumbnail_url)
            /\ ~IsNull(parsed[i].listing_url)

\* C3 amended: listing_url is never null, nor is a Source B thumbnail_url or
\* a Source A address.  price, bedrooms, bathrooms, sqft (and a Source B
\* address) are null exactly when the payload carries the field as an
\* explicit null; a Source A thumbnail_url is null exactly when the result
\* has no primary_photo dict or that dict has no non-null href.
C3_NullOnlyWhereUpstreamNull ==
    parse_pc = "returned" =>
        /\ Len(parsed) = Len(SourcesOfParsed)
        /\ \A i \in DOMAIN parsed :
             LET rec == parsed[i]
                 src == SourcesOfParsed[i]
             IN  /\ ~IsNull(rec.listing_url)
                 /\ IF api_name = UsRealEstate
                    THEN /\ ~IsNull(rec.address)
                         /\ IsNull(rec.price) <=> IsNull(src.list_price)
                         /\ IsNull(rec.bedrooms) <=> IsNull(src.description.beds)
                         /\ IsNull(rec.bathrooms) <=> IsNull(src.description.baths)
                         /\ IsNull(rec.sqft) <=> IsNull(src.description.sqft)
                         /\ IsNull(rec.thumbnail_url)
                              <=> \/ src.primary_photo.t # "dict"
                                  \/ src.primary_photo.href.t \in {"absent", "null"}
                    ELSE /\ ~IsNull(rec.thumbnail_url)
                         /\ IsNull(rec.address) <=> IsNull(src.address)
                         /\ IsNull(rec.price) <=> IsNull(src.price)
                         /\ IsNull(rec.bedrooms) <=> IsNull(src.bedrooms)
                         /\ IsNull(rec.bathrooms) <=> IsNull(src.bathrooms)
                         /\ IsNull(rec.sqft) <=> IsNull(src.livingArea)

\* a Source A result without primary_photo was emitted, with a null thumbnail
C3_Witness ==
    /\ parse_pc = "returned"
    /\ api_name = UsRealEstate
    /\ \E i \in DOMAIN parsed :
          /\ SourcesOfParsed[i].primary_photo.t = "absent"
          /\ IsNull(parsed[i].thumbnail_url)

\* the response is empty, lacks 'data', or has an absent or empty
\* 'home_search' or 'results'
C4_MissingStructure ==
    \/ data.t # "dict"
    \/ data.data.t = "absent"
    \/ /\ data.data.t = "dict"
       /\ \/ data.data.home_search.t = "absent"
          \/ /\ data.data.home_search.t = "dict"
             /\ \/ data.data.home_search.results.t = "absent"
                \/ /\ data.data.home_search.results.t = "list"
                   /\ data.data.home_search.results.items = << >>

\* C4: the Source A normalizer returns the empty list and does not raise
\* when the response is empty, lacks 'data', or has an absent or empty
\* 'home_search' or 'results'.
C4_SourceAFailsSoft ==
    (parse_pc # "call" /\ api_name = UsRealEstate /\ C4_MissingStructure)
        => (parse_pc = "returned" /\ parsed = << >>)

\* a response that is a dict with other keys but no 'data' was parsed
C4_Witness ==
    /\ parse_pc = "returned"
    /\ api_name = UsRealEstate
    /\ data = ResponseA(TRUE, Absent)
    /\ parsed = << >>

\* the drop criterion as the claim words it: no (or an empty) description, or
\* a bedroom count that is present, non-zero and below 3
C5_Filtered(p) ==
    \/ p.description.t # "dict"
    \/ EmptyDescription(p.description)
    \/ /\ p.description.beds.t = "num"
       /\ p.description.beds.n # 0
       /\ p.description.beds.n < 3

C5_KeptByFilter(p)   == ~C5_Filtered(p)
C5_KeptByFilterAndParse(p) == ~C5_Filtered(p) /\ ~RaisesA(p)

\* C5 as stated: a Source A result is dropped if and only if its description
\* is absent or empty or its beds is present, non-zero and below 3.
C5_DroppedIffFiltered ==
    (parse_pc = "returned" /\ api_name = UsRealEstate)
        => Len(parsed) = Len(SelectSeq(ItemsOf(api_name, data), C5_KeptByFilter))

\* C5 amended: a Source A result is dropped if and only if its description
\* is absent or empty, or its beds is present, non-zero and below 3, or its
\* processing raises an exception; the output is the records of the other
\* results in input order, so a drop never removes another result.
C5_DroppedIffFilteredOrRaised ==
    (parse_pc = "returned" /\ api_name = UsRealEstate)
        => LET kept == SelectSeq(ItemsOf(api_name, data), C5_KeptByFilterAndParse)
           IN  parsed = [i \in 1..Len(kept) |-> RecordA(kept[i])]

\* a result with beds = 1 was dropped and the result after it, whose beds is
\* absent, was kept
C5_Witness ==
    /\ parse_pc = "returned"
    /\ api_name = UsRealEstate
    /\ Len(ItemsOf(api_name, data)) = 2
    /\ ItemsOf(api_name, data)[1].description = GoodDesc(Num(1))
    /\ ItemsOf(api_name, data)[2].description = GoodDesc(Absent)
    /\ Len(parsed) = 1
    /\ parsed[1].bedrooms = Num(0)

\* the fallback image fields in the claim's order
C6_Candidates(p) ==
    <<p.image,
      p.photo,
      IF p.primary_photo.t = "dict" THEN p.primary_photo.href ELSE Absent,
      IF p.images.t = "list" /\ p.images.items # << >>
      THEN p.images.items[1].href ELSE Absent>>
\* a non-empty string not containing 'placeholder' in any letter case
C6_Usable(v) ==
    /\ v.t = "str"
    /\ v.s # << >>
    /\ \A k \in 1..(Len(v.s) - 10) :
          Lower(SubSeq(v.s, k, k + 10)) # PlaceholderWord
C6_NonEmpty(v) == v.t \notin {"absent", "null"} /\ v # Str(<< >>) /\ v # Num(0)
ThreeBedTwoBath ==
    <<"3","%","2","0","B","e","d","%","2","0","2","%","2","0","B","a","t","h">>

\* C6: a Source B record's thumbnail_url is imgSrc when that is non-empty;
\* otherwise the first of image, photo, primary_photo.href, images[0].href
\* that is a non-empty string without 'placeholder' (any case); otherwise the
\* placeholder URL whose text is the URL-escaped '<bedrooms> Bed <bathrooms>
\* Bath'.  A prop with no image fields, 3 bedrooms and 2 bathrooms gets a URL
\* containing '3%20Bed%202%20Bath', and no record has an empty thumbnail_url.
C6_ThumbnailPriority ==
    (parse_pc = "returned" /\ api_name = ZillowApi) =>
        /\ Len(parsed) = Len(SourcesOfParsed)
        /\ \A i \in DOMAIN parsed :
             LET p     == SourcesOfParsed[i]
                 thumb == parsed[i].thumbnail_url
                 cands == C6_Candidates(p)
                 beds  == IF p.bedrooms.t = "absent" THEN Num(0) ELSE p.bedrooms
                 baths == IF p.bathrooms.t = "absent" THEN Num(0) ELSE p.bathrooms
             IN  /\ C6_NonEmpty(thumb)
                 /\ C6_NonEmpty(p.imgSrc) => thumb = p.imgSrc
                 /\ ~C6_NonEmpty(p.imgSrc) =>
                      /\ \A k \in 1..4 :
                            (C6_Usable(cands[k])
                               /\ \A j \in 1..(k - 1) : ~C6_Usable(cands[j]))
                            => thumb = cands[k]
                      /\ (\A k \in 1..4 : ~C6_Usable(cands[k])) =>
                            /\ thumb.t = "str"
                            /\ thumb.s = PlaceholderUrl
                                  \o Quote(PyStr(beds) \o <<" ","B","e","d"," ">>
                                           \o PyStr(baths) \o <<" ","B","a","t","h">>)
                            /\ (beds = Num(3) /\ baths = Num(2))
                                  => Contains(thumb.s, ThreeBedTwoBath)

\* a prop with no image field at all, 3 bedrooms and 2 bathrooms was emitted
\* with the synthesized thumbnail
C6_Witness ==
    /\ parse_pc = "returned"
    /\ api_name = ZillowApi
    /\ \E i \in DOMAIN parsed :
          LET p == SourcesOfParsed[i]
          IN  /\ p.imgSrc.t = "absent" /\ p.image.t = "absent"
              /\ p.photo.t = "absent" /\ p.primary_photo.t = "absent"
              /\ p.images.t = "absent"
              /\ p.bedrooms = Num(3) /\ p.bathrooms = Num(2)
              /\ Contains(parsed[i].thumbnail_url.s, ThreeBedTwoBath)

(***************************************************************************)
(* Properties of the estimator (specification SpecCost)                    *)
(***************************************************************************)
\* the kinds of KindInputs that contain 'condo' or 'apartment' in any case
C7_HoaKinds ==
    {Str(Condo), Str(<<"C","o","n","d","o">>),
     Str(<<"A","P","A","R","T","M","E","N","T","S">>),
     Str(<<"c","o","n","d","o","s">>)}
\* a missing, zero or null value replaced by its default
C7_Price == IF price.t = "num" /\ price.n # 0 THEN price.n ELSE 500000
C7_Area  == IF sqft.t = "num" /\ sqft.n # 0 THEN sqft.n ELSE 1500
\* cents is amount/per rounded to the nearest integer
C7_IsRounded(cents, amount, per) ==
    /\ 2 * (cents * per - amount) <= per
    /\ 2 * (amount - cents * per) <= per

\* C7: hoa_maintenance is round(price*0.004/12, 2) when the kind contains
\* 'condo' or 'apartment' in any letter case and 0 for every other kind, a
\* missing or empty kind included; a missing, zero or null price counts as
\* 500000 and such an area as 1500 in the formulas.
C7_HoaOnlyForCondoOrApartment ==
    cost_pc = "returned" =>
        /\ property_type \in C7_HoaKinds
              => C7_IsRounded(monthly_costs.hoa_maintenance, C7_Price * 4, 120)
        /\ property_type \notin C7_HoaKinds
              => monthly_costs.hoa_maintenance = 0
        /\ C7_IsRounded(monthly_costs.property_tax, C7_Price * 2, 12)
        /\ C7_IsRounded(monthly_costs.utilities, C7_Area * 200, 12)
        /\ (price = Num(400000) /\ property_type = Str(Condo))
              => monthly_costs.hoa_maintenance = 13333
        /\ (price = None /\ property_type = Str(<<"C","o","n","d","o">>))
              => monthly_costs.hoa_maintenance = 16667

\* estimate_monthly_costs(400000, 1000, 'condo') returned hoa 133.33
C7_Witness ==
    /\ cost_pc = "returned"
    /\ price = Num(400000) /\ sqft = Num(1000) /\ property_type = Str(Condo)
    /\ monthly_costs.hoa_maintenance = 13333

\* C8: for all inputs, negative ones included, every figure returned by
\* estimate_monthly_costs is non-negative.
C8_FiguresNonNegative ==
    cost_pc = "returned" =>
        /\ monthly_costs.property_tax >= 0
        /\ monthly_costs.insurance >= 0
        /\ monthly_costs.utilities >= 0
        /\ monthly_costs.hoa_maintenance >= 0
        /\ monthly_costs.misc_expenses >= 0
        /\ monthly_costs.municipal_services >= 0
        /\ monthly_costs.total_monthly_non_mortgage_costs >= 0

(***************************************************************************)
(* Per-record failures and the Source B pass-through (SpecParse)           *)
(***************************************************************************)
\* processing of the element raises inside the per-record try
RaisesIn(api, p) == IF api = UsRealEstate THEN RaisesA(p) ELSE RaisesB(p)
\* the element is one the normalizer emits a record for when nothing raises
Unfiltered(api, p) == IF api = UsRealEstate THEN ~C5_Filtered(p) ELSE TRUE
\* the record of an element that parses
RecordOf(api, p) == IF api = UsRealEstate THEN RecordA(p) ELSE RecordB(p)

C11_Parses(p) == ~RaisesIn(api_name, p) /\ Unfiltered(api_name, p)

\* C11: in both normalizers a record whose processing raises is skipped and
\* nothing of it is emitted, while the rest of the batch is still processed:
\* the output is the records of the successfully parsed, unfiltered elements
\* in input order, and a bad record makes the call neither raise nor return
\* an empty list when another element parses.
C11_BadRecordSkippedOnly ==
    parse_pc # "call" =>
        LET items == ItemsOf(api_name, data)
            good  == SelectSeq(items, C11_Parses)
        IN  /\ parse_pc = "returned"
            /\ parsed = [i \in 1..Len(good) |-> RecordOf(api_name, good[i])]
            /\ \A i \in DOMAIN items :
                  (RaisesIn(api_name, items[i]) /\ good # << >>) => parsed # << >>

\* a Source A batch whose first result raises (null address) and whose
\* second parses: only the second is in the output
C11_Witness ==
    /\ parse_pc = "returned"
    /\ api_name = UsRealEstate
    /\ Len(ItemsOf(api_name, data)) = 2
    /\ RaisesA(ItemsOf(api_name, data)[1])
    /\ ItemsOf(api_name, data)[1].location = Loc(None)
    /\ C11_Parses(ItemsOf(api_name, data)[2])
    /\ parsed = <<RecordA(ItemsOf(api_name, data)[2])>>

\* a Source B batch whose second prop raises (null primary_photo) and whose
\* first parses
C11_WitnessB ==
    /\ parse_pc = "returned"
    /\ api_name = ZillowApi
    /\ Len(ItemsOf(api_name, data)) = 2
    /\ ~RaisesB(ItemsOf(api_name, data)[1])
    /\ ItemsOf(api_name, data)[2].primary_photo = None
    /\ parsed = <<RecordB(ItemsOf(api_name, data)[1])>>

\* C12 as stated: Source B filters nothing, so the number of its records
\* equals the number of props in the response.
C12_RecordPerProp ==
    (parse_pc = "returned" /\ api_name = ZillowApi)
        => Len(parsed) = Len(ItemsOf(api_name, data))

\* C12 amended: Source B applies no bedroom filter: every prop whose
\* processing does not raise gives a record carrying its bedrooms value,
\* whatever that value is, so the number of records equals the number of
\* props that did not raise; a response without 'props' yields [].
C12_NoBedroomFilter ==
    (parse_pc = "returned" /\ api_name = ZillowApi) =>
        LET items == ItemsOf(api_name, data)
            ok    == SelectSeq(items, EmittedB)
        IN  /\ Len(parsed) = Len(ok)
            /\ \A i \in DOMAIN parsed :
                  parsed[i].bedrooms
                     = (IF ok[i].bedrooms.t = "absent" THEN Num(0)
                        ELSE ok[i].bedrooms)
            /\ (data.t = "dict" /\ data.props.t = "absent") => parsed = << >>

\* a prop with 1 bedroom, which Source A would drop, was emitted
C12_Witness ==
    /\ parse_pc = "returned"
    /\ api_name = ZillowApi
    /\ \E i \in DOMAIN parsed :
          /\ SourcesOfParsed[i].bedrooms = Num(1)
          /\ parsed[i].bedrooms = Num(1)

(***************************************************************************)
(* Accumulation on one aggregator (specification SpecReuse)                *)
(***************************************************************************)
\* what one finished call merged: its sources' lists in configured order
CallRecords(results) == results[UsRealEstate] \o results[ZillowApi]

RECURSIVE AllCallRecords(_)
AllCallRecords(calls) ==
    IF calls = << >> THEN << >>
    ELSE CallRecords(Head(calls)) \o AllCallRecords(Tail(calls))

IsPrefix(xs, ys) == Len(xs) <= Len(ys) /\ SubSeq(ys, 1, Len(xs)) = xs

\* C13: on one aggregator properties only grows (no step removes or clears
\* a record) and after any number of fetch_all_properties calls it is the
\* concatenation, in call order, of the results of all the calls.
C13_PropertiesAccumulate ==
    [][\A r \in Requests :
          /\ IsPrefix(properties[r], properties'[r])
          /\ properties'[r] = AllCallRecords(history'[r])]_vars

\* two calls finished, each found records, and the list after the second
\* still begins with the first call's records
C13_Witness ==
    /\ pc[1] = "fetched"
    /\ Len(history[1]) = 2
    /\ CallRecords(history[1][1]) # << >>
    /\ CallRecords(history[1][2]) # << >>
    /\ properties[1] = CallRecords(history[1][1]) \o CallRecords(history[1][2])

====
